---- MODULE Spec2Model ----
(***************************************************************************)
(* ArchiverRegistry (src/contracts/ArchiverRegistry.sol): stake ledger,    *)
(* proportional reward accumulator, blob commitments and the challenge /   *)
(* slash protocol, as a state machine with one action per external         *)
(* function.                                                               *)
(*                                                                         *)
(* Units.  Amounts are counted in units of 0.01 ether instead of wei, so    *)
(* that MIN_STAKE = 0.1 ether = 10, CHALLENGE_BOND = 0.01 ether = 1 and    *)
(* the fixed-point factor 1e18 of the accumulator, ten times MIN_STAKE,    *)
(* is SCALE = 100.  Time is counted in days, so CHALLENGE_PERIOD =         *)
(* 24 hours = 1.  All divisions are the truncating integer divisions of    *)
(* the EVM; a subtraction that would go below 0 reverts ("Panic"), and so  *)
(* does a value transfer of more than the contract holds                   *)
(* ("TransferFailed").  The endpoint string of an archiver, the events,    *)
(* and the unused pause switch and feeRecipient are left out.              *)
(*                                                                         *)
(* A call that reverts leaves the contract state unchanged (EVM            *)
(* semantics); for every external function F the operator FRevert gives    *)
(* the error the call ends with, "none" when it succeeds, following the    *)
(* order of the checks in the code.  The action F is the successful call.  *)
(*                                                                         *)
(* The indexer (src/indexer/server.js) is a second state machine over its  *)
(* own variables: the POST /post handler in two steps, before and after    *)
(* its await, with the nonce map, the post list and the per-agent rate     *)
(* limit.  The contract and the indexer do not read each other's state;    *)
(* every specification below runs one of them and leaves the other as it   *)
(* is after construction.                                                  *)
(***************************************************************************)
EXTENDS Integers, Sequences, FiniteSets

\* ---------------------------------------------------------------- constants
MIN_STAKE == 10
CHALLENGE_PERIOD == 1
SLASH_PERCENT == 10
CHALLENGE_BOND == 1
SCALE == 100
\* The only batch limit of the source file; it is declared by the contract
\* BlobSocialGraph, and ArchiverRegistry does not refer to it.
MAX_BATCH_SIZE == 50

\* ------------------------------------------------------------------- bounds
MaxTime == 2
MaxChallenges == 1
MaxPool == 7
MaxPoolFunded == 14
MaxCommits == 1
MaxFundValue == 6
MaxCommitted == 3

\* The accounts that call the contract; OWNER deployed it (Ownable).
OWNER == "o"
Addr == {"o", "a", "b"}
ZERO == "zero"
Hash == {"h1", "h2"}
ZERO_HASH == "h0"
\* The challenge ids the model keeps a record for: Env opens MaxChallenges
\* challenges, the challenge environment NextChallenge one more.
ChallengeIds == 0 .. MaxChallenges

\* The callers and the msg.value / amount arguments they try.  Operators
\* register with, and top up to, one of the StakeLevels; they withdraw
\* everything or down to MIN_STAKE.
Registrants == {"a", "b"}
Challengers == {"o", "a"}
Committers == {"a"}
\* The blob hash that Env and NextChallenge commit to and challenge; the
\* commitment environment NextCommit uses all of Hash.
EnvHash == {"h1"}
StakeLevels == {MIN_STAKE, MIN_STAKE + 1}
FundValues == {7}

\* ------------------------------------------------------------------ indexer
\* Indexer times are counted in units of 5 minutes: the rate-limit window of
\* 15 minutes is windowMs = 3 and a timestamp may differ from Date.now() by
\* at most 5 minutes = 1.
windowMs == 3
maxPosts == 5
TimestampWindow == 1

MaxClock == 5
MaxClockShort == 2
MaxRequests == 2
MaxNonce == 2
MaxPosts == 3
MaxAdmitted == 7

\* The author strings of the requests: "a" and "A" spell the same address,
\* "m" is another one.  Map keys are lower-cased addresses.
Spellings == {"a", "A", "m"}
toLowerCase(address) == IF address = "A" THEN "a" ELSE address
Keys == {toLowerCase(s) : s \in Spellings}
\* The addresses for which registry.balanceOf is positive, and the addresses
\* whose private key signs requests.
AgentHolders == {"a"}
Signers == {"a", "m"}
\* The handlers that can be suspended at the same time.
Slots == 1 .. MaxRequests

\* agentRateLimits.get of an absent key.
NoLimit == [count |-> 0, resetTime |-> 0]

\* The text a post is signed over ("Timestamp: ... Nonce: ..."), and a
\* signature: who signed which text.
Message(timestamp, nonce) == [timestamp |-> timestamp, nonce |-> nonce]
Sign(signer, message) == [signer |-> signer, message |-> message]

\* A slot with no suspended handler.
NoRequest == [author |-> "none", nonce |-> 0, timestamp |-> 0,
              signature |-> Sign("none", Message(0, 0))]

VARIABLES
    archivers,          \* mapping(address => Archiver)
    activeArchivers,    \* address[]
    archiverIndex,      \* mapping(address => uint256), 1-indexed, 0 = absent
    challenges,         \* mapping(uint256 => Challenge)
    nextChallengeId,
    totalStake,
    rewardPool,
    accRewardPerStake,
    rewardDebt,         \* mapping(address => uint256)
    blobArchivers,      \* mapping(bytes32 => address[])
    now,                \* block.timestamp
    balance,            \* address(this).balance
    rewardsPaid,        \* history: total transferred by _claimRewards
    funded,             \* history: total msg.value of fundRewardPool and receive
    \* the indexer (src/indexer/server.js)
    posts,              \* let posts = []
    nonces,             \* Map address -> nonce, 0 for an absent key
    agentRateLimits,    \* Map address -> { count, resetTime }
    clock,              \* Date.now()
    inflight,           \* POST /post handlers suspended at await verifyAgent
    admitted            \* history: the times checkAgentRateLimit returned true

registryVars == <<archivers, activeArchivers, archiverIndex, challenges, nextChallengeId,
                  totalStake, rewardPool, accRewardPerStake, rewardDebt, blobArchivers,
                  now, balance, rewardsPaid, funded>>

indexerVars == <<posts, nonces, agentRateLimits, clock, inflight, admitted>>

vars == <<archivers, activeArchivers, archiverIndex, challenges, nextChallengeId,
          totalStake, rewardPool, accRewardPerStake, rewardDebt, blobArchivers,
          now, balance, rewardsPaid, funded,
          posts, nonces, agentRateLimits, clock, inflight, admitted>>

NoArchiver == [stake |-> 0, registeredAt |-> 0, lastClaimAt |-> 0, blobCount |-> 0,
               successfulChallenges |-> 0, failedChallenges |-> 0, active |-> FALSE]

NoChallenge == [challenger |-> ZERO, archiver |-> ZERO, blobHash |-> ZERO_HASH,
                deadline |-> 0, resolved |-> FALSE, archiverWon |-> FALSE]

\* archivers[a] for any address, the zero address included (default storage).
ArchiverOf(a) == IF a \in Addr THEN archivers[a] ELSE NoArchiver

RECURSIVE SumOver(_, _)
SumOver(f, S) == IF S = {} THEN 0
                 ELSE LET x == CHOOSE y \in S : TRUE IN f[x] + SumOver(f, S \ {x})

RECURSIVE SumSent(_)
SumSent(s) == IF s = <<>> THEN 0 ELSE Head(s).value + SumSent(Tail(s))

\* Total value a sequence of transfers s sends to address a.
SentTo(s, a) == SumSent(SelectSeq(s, LAMBDA t : t.to = a))

Init ==
    /\ archivers = [a \in Addr |-> NoArchiver]
    /\ activeArchivers = <<>>
    /\ archiverIndex = [a \in Addr |-> 0]
    /\ challenges = [i \in ChallengeIds |-> NoChallenge]
    /\ nextChallengeId = 0
    /\ totalStake = 0
    /\ rewardPool = 0
    /\ accRewardPerStake = 0
    /\ rewardDebt = [a \in Addr |-> 0]
    /\ blobArchivers = [h \in Hash |-> <<>>]
    /\ now = 1
    /\ balance = 0
    /\ rewardsPaid = 0
    /\ funded = 0
    /\ posts = <<>>
    /\ nonces = [k \in Keys |-> 0]
    /\ agentRateLimits = [k \in Keys |-> NoLimit]
    /\ clock = 1
    /\ inflight = [s \in Slots |-> NoRequest]
    /\ admitted = [k \in Keys |-> <<>>]

\* ------------------------------------------------------------ internal parts

\* Mutant: every archiver accrues as if it held MIN_STAKE.
AccumulatedFlat(a) ==
    IF archivers[a].stake = 0 THEN 0 ELSE (MIN_STAKE * accRewardPerStake) \div SCALE

\* _claimRewards: (archiver.stake * accRewardPerStake) / 1e18
Accumulated(a) == (archivers[a].stake * accRewardPerStake) \div SCALE

\* _claimRewards: the error it ends with when run with `bal` in the contract.
claimRevert(a, bal) ==
    IF archivers[a].stake = 0 THEN "none"
    ELSE IF Accumulated(a) < rewardDebt[a] THEN "Panic"
    ELSE IF Accumulated(a) - rewardDebt[a] > bal THEN "TransferFailed"
    ELSE "none"

\* _claimRewards: the amount it transfers (0 when it returns early).
claimAmount(a) ==
    IF archivers[a].stake = 0 THEN 0 ELSE Accumulated(a) - rewardDebt[a]

\* _claimRewards: the transfers it makes.
claimSent(a) ==
    IF claimAmount(a) > 0 THEN <<[to |-> a, value |-> claimAmount(a)]>> ELSE <<>>

\* Mutant: rewardDebt is not moved to the accumulated amount.
claimDebtStale(a) == rewardDebt[a]

\* _claimRewards: rewardDebt[a] after it.
claimDebt(a) == IF claimAmount(a) > 0 THEN Accumulated(a) ELSE rewardDebt[a]

\* _claimRewards: archiver.lastClaimAt after it.
claimLastClaimAt(a) ==
    IF claimAmount(a) > 0 THEN now ELSE archivers[a].lastClaimAt

\* Mutant: the archiver is left in the list.
deactivatedListKeep(a) == activeArchivers

\* _deactivateArchiver: activeArchivers after the swap-with-last removal.
deactivatedList(a) ==
    LET index == archiverIndex[a]
        lastIndex == Len(activeArchivers)
    IN  IF index > 0
        THEN LET swapped == IF index < lastIndex
                            THEN [activeArchivers EXCEPT ![index] = activeArchivers[lastIndex]]
                            ELSE activeArchivers
             IN  SubSeq(swapped, 1, lastIndex - 1)
        ELSE activeArchivers

\* Mutant: the index of the archiver moved into the gap is not rewritten.
deactivatedIndexNoMove(a) == [archiverIndex EXCEPT ![a] = 0]

\* _deactivateArchiver: archiverIndex after the removal.
deactivatedIndex(a) ==
    LET index == archiverIndex[a]
        lastIndex == Len(activeArchivers)
    IN  IF index > 0
        THEN LET moved == IF index < lastIndex
                          THEN [archiverIndex EXCEPT ![activeArchivers[lastIndex]] = index]
                          ELSE archiverIndex
             IN  [moved EXCEPT ![a] = 0]
        ELSE archiverIndex

\* ------------------------------------------------------------------ register
\* Mutant: the check for an existing record left out.
registerRevertNoRegisteredCheck(c, value) ==
    IF value < MIN_STAKE THEN "InsufficientStake" ELSE "none"

registerRevert(c, value) ==
    IF value < MIN_STAKE THEN "InsufficientStake"
    ELSE IF archivers[c].registeredAt # 0 THEN "ArchiverAlreadyRegistered"
    ELSE "none"

\* Mutant: the new archiver starts with rewardDebt 0.
registerNoDebt(c, value) ==
    /\ registerRevert(c, value) = "none"
    /\ archivers' = [archivers EXCEPT ![c] =
          [stake |-> value, registeredAt |-> now, lastClaimAt |-> now, blobCount |-> 0,
           successfulChallenges |-> 0, failedChallenges |-> 0, active |-> TRUE]]
    /\ activeArchivers' = Append(activeArchivers, c)
    /\ archiverIndex' = [archiverIndex EXCEPT ![c] = Len(activeArchivers) + 1]
    /\ totalStake' = totalStake + value
    /\ rewardDebt' = [rewardDebt EXCEPT ![c] = 0]
    /\ balance' = balance + value
    /\ UNCHANGED <<challenges, nextChallengeId, rewardPool, accRewardPerStake,
                   blobArchivers, now, rewardsPaid, funded>>

register(c, value) ==
    /\ registerRevert(c, value) = "none"
    /\ archivers' = [archivers EXCEPT ![c] =
          [stake |-> value, registeredAt |-> now, lastClaimAt |-> now, blobCount |-> 0,
           successfulChallenges |-> 0, failedChallenges |-> 0, active |-> TRUE]]
    /\ activeArchivers' = Append(activeArchivers, c)
    /\ archiverIndex' = [archiverIndex EXCEPT ![c] = Len(activeArchivers) + 1]
    /\ totalStake' = totalStake + value
    /\ rewardDebt' = [rewardDebt EXCEPT ![c] = (value * accRewardPerStake) \div SCALE]
    /\ balance' = balance + value
    /\ UNCHANGED <<challenges, nextChallengeId, rewardPool, accRewardPerStake,
                   blobArchivers, now, rewardsPaid, funded>>

\* ------------------------------------------------------------------ addStake
addStakeRevert(c, value) ==
    IF archivers[c].registeredAt = 0 THEN "NotAnArchiver"
    ELSE claimRevert(c, balance + value)

addStakeSent(c, value) == claimSent(c)

addStake(c, value) ==
    /\ addStakeRevert(c, value) = "none"
    /\ archivers' = [archivers EXCEPT ![c].stake = @ + value,
                                      ![c].lastClaimAt = claimLastClaimAt(c)]
    /\ totalStake' = totalStake + value
    /\ rewardDebt' = [rewardDebt EXCEPT ![c] =
                         ((archivers[c].stake + value) * accRewardPerStake) \div SCALE]
    /\ balance' = balance + value - SumSent(addStakeSent(c, value))
    /\ rewardsPaid' = rewardsPaid + claimAmount(c)
    /\ UNCHANGED <<activeArchivers, archiverIndex, challenges, nextChallengeId,
                   rewardPool, accRewardPerStake, blobArchivers, now, funded>>

\* ------------------------------------------------------------- withdrawStake
\* Mutant: the minimum-stake check left out.
withdrawStakeRevertNoMinimum(c, amount) ==
    IF archivers[c].registeredAt = 0 THEN "NotAnArchiver"
    ELSE IF amount > archivers[c].stake THEN "WithdrawalExceedsStake"
    ELSE IF claimRevert(c, balance) # "none" THEN claimRevert(c, balance)
    ELSE IF amount > balance - claimAmount(c) THEN "TransferFailed"
    ELSE "none"

withdrawStakeRevert(c, amount) ==
    IF archivers[c].registeredAt = 0 THEN "NotAnArchiver"
    ELSE IF amount > archivers[c].stake THEN "WithdrawalExceedsStake"
    ELSE IF archivers[c].stake - amount > 0 /\ archivers[c].stake - amount < MIN_STAKE
         THEN "StakeBelowMinimum"
    ELSE IF claimRevert(c, balance) # "none" THEN claimRevert(c, balance)
    ELSE IF amount > balance - claimAmount(c) THEN "TransferFailed"
    ELSE "none"

\* Mutant: the pending reward is not paid out.
withdrawStakeSentNoClaim(c, amount) == <<[to |-> c, value |-> amount]>>

withdrawStakeSent(c, amount) == claimSent(c) \o <<[to |-> c, value |-> amount]>>

withdrawStake(c, amount) ==
    LET newStake == archivers[c].stake - amount IN
    /\ withdrawStakeRevert(c, amount) = "none"
    /\ archivers' = [archivers EXCEPT ![c].stake = newStake,
                                      ![c].lastClaimAt = claimLastClaimAt(c),
                                      ![c].active = IF newStake = 0 THEN FALSE ELSE @]
    /\ totalStake' = totalStake - amount
    /\ rewardDebt' = [rewardDebt EXCEPT ![c] = (newStake * accRewardPerStake) \div SCALE]
    /\ activeArchivers' = IF newStake = 0 THEN deactivatedList(c) ELSE activeArchivers
    /\ archiverIndex' = IF newStake = 0 THEN deactivatedIndex(c) ELSE archiverIndex
    /\ balance' = balance - SumSent(withdrawStakeSent(c, amount))
    /\ rewardsPaid' = rewardsPaid + claimAmount(c)
    /\ UNCHANGED <<challenges, nextChallengeId, rewardPool, accRewardPerStake,
                   blobArchivers, now, funded>>

\* ---------------------------------------------------------------- deactivate
\* Mutant: the active check left out.
deactivateRevertNever(c) == "none"

deactivateRevert(c) ==
    IF ~archivers[c].active THEN "ArchiverNotActive" ELSE "none"

deactivate(c) ==
    /\ deactivateRevert(c) = "none"
    /\ archivers' = [archivers EXCEPT ![c].active = FALSE]
    /\ activeArchivers' = deactivatedList(c)
    /\ archiverIndex' = deactivatedIndex(c)
    /\ UNCHANGED <<challenges, nextChallengeId, totalStake, rewardPool, accRewardPerStake,
                   rewardDebt, blobArchivers, now, balance, rewardsPaid, funded>>

\* -------------------------------------------------------------- commitToBlob
commitToBlobRevert(c, blobHash) ==
    IF ~archivers[c].active THEN "ArchiverNotActive" ELSE "none"

\* Mutant: the commitment is recorded although the caller is not active.
commitToBlobNoGuard(c, blobHash) ==
    /\ blobArchivers' = [blobArchivers EXCEPT ![blobHash] = Append(@, c)]
    /\ archivers' = [archivers EXCEPT ![c].blobCount = @ + 1]
    /\ UNCHANGED <<activeArchivers, archiverIndex, challenges, nextChallengeId, totalStake,
                   rewardPool, accRewardPerStake, rewardDebt, now, balance, rewardsPaid, funded>>

commitToBlob(c, blobHash) ==
    /\ commitToBlobRevert(c, blobHash) = "none"
    /\ blobArchivers' = [blobArchivers EXCEPT ![blobHash] = Append(@, c)]
    /\ archivers' = [archivers EXCEPT ![c].blobCount = @ + 1]
    /\ UNCHANGED <<activeArchivers, archiverIndex, challenges, nextChallengeId, totalStake,
                   rewardPool, accRewardPerStake, rewardDebt, now, balance, rewardsPaid, funded>>

\* -------------------------------------------------------- batchCommitToBlobs
batchCommitToBlobsRevert(c, blobHashes) ==
    IF ~archivers[c].active THEN "ArchiverNotActive" ELSE "none"

\* The loop of batchCommitToBlobs: blobArchivers after msg.sender c has been
\* pushed to the list of each element of blobHashes, in order.
RECURSIVE pushAll(_, _, _)
pushAll(lists, c, blobHashes) ==
    IF blobHashes = <<>> THEN lists
    ELSE pushAll([lists EXCEPT ![Head(blobHashes)] = Append(@, c)], c, Tail(blobHashes))

\* Mutant: blobCount is advanced once for the whole batch.
batchCommitCountsOnce(c, blobHashes) ==
    /\ batchCommitToBlobsRevert(c, blobHashes) = "none"
    /\ blobArchivers' = pushAll(blobArchivers, c, blobHashes)
    /\ archivers' = [archivers EXCEPT ![c].blobCount = @ + 1]
    /\ UNCHANGED <<activeArchivers, archiverIndex, challenges, nextChallengeId, totalStake,
                   rewardPool, accRewardPerStake, rewardDebt, now, balance, rewardsPaid, funded>>

batchCommitToBlobs(c, blobHashes) ==
    /\ batchCommitToBlobsRevert(c, blobHashes) = "none"
    /\ blobArchivers' = pushAll(blobArchivers, c, blobHashes)
    /\ archivers' = [archivers EXCEPT ![c].blobCount = @ + Len(blobHashes)]
    /\ UNCHANGED <<activeArchivers, archiverIndex, challenges, nextChallengeId, totalStake,
                   rewardPool, accRewardPerStake, rewardDebt, now, balance, rewardsPaid, funded>>

\* ----------------------------------------------------------- createChallenge
createChallengeRevert(c, archiver, blobHash, value) ==
    IF value # CHALLENGE_BOND THEN "InvalidBond"
    ELSE IF ~ArchiverOf(archiver).active THEN "ArchiverNotActive"
    ELSE "none"

\* Mutant: nextChallengeId is not advanced, so the next challenge takes the
\* same id.
createChallengeReuseId(c, archiver, blobHash, value) ==
    LET id == IF nextChallengeId > 0 THEN nextChallengeId - 1 ELSE 0 IN
    /\ createChallengeRevert(c, archiver, blobHash, value) = "none"
    /\ nextChallengeId' = id + 1
    /\ challenges' = [challenges EXCEPT ![id] =
          [challenger |-> c, archiver |-> archiver, blobHash |-> blobHash,
           deadline |-> now + CHALLENGE_PERIOD, resolved |-> FALSE, archiverWon |-> FALSE]]
    /\ balance' = balance + value
    /\ UNCHANGED <<archivers, activeArchivers, archiverIndex, totalStake, rewardPool,
                   accRewardPerStake, rewardDebt, blobArchivers, now, rewardsPaid, funded>>

createChallenge(c, archiver, blobHash, value) ==
    /\ createChallengeRevert(c, archiver, blobHash, value) = "none"
    /\ nextChallengeId' = nextChallengeId + 1
    /\ challenges' = [challenges EXCEPT ![nextChallengeId] =
          [challenger |-> c, archiver |-> archiver, blobHash |-> blobHash,
           deadline |-> now + CHALLENGE_PERIOD, resolved |-> FALSE, archiverWon |-> FALSE]]
    /\ balance' = balance + value
    /\ UNCHANGED <<archivers, activeArchivers, archiverIndex, totalStake, rewardPool,
                   accRewardPerStake, rewardDebt, blobArchivers, now, rewardsPaid, funded>>

\* challenges[id] for any uint256 id (default storage when never written).
ChallengeOf(id) == IF id \in ChallengeIds THEN challenges[id] ELSE NoChallenge

\* Mutant: the division done before the multiplication.
slashAmountDivFirst(a) == (archivers[a].stake \div 100) * SLASH_PERCENT

\* (archiver.stake * SLASH_PERCENT) / 100, the expression both resolution
\* functions compute.
slashAmountOf(a) == (archivers[a].stake * SLASH_PERCENT) \div 100

\* ---------------------------------------------------------- resolveChallenge
\* Mutant: the bond goes back to the challenger when the archiver wins.
resolveChallengeSentRefund(id, archiverHasData) ==
    IF archiverHasData
    THEN <<[to |-> challenges[id].challenger, value |-> CHALLENGE_BOND]>>
    ELSE <<[to |-> challenges[id].challenger,
            value |-> slashAmountOf(challenges[id].archiver) + CHALLENGE_BOND]>>

resolveChallengeSent(id, archiverHasData) ==
    IF archiverHasData
    THEN <<[to |-> challenges[id].archiver, value |-> CHALLENGE_BOND]>>
    ELSE <<[to |-> challenges[id].challenger,
            value |-> slashAmountOf(challenges[id].archiver) + CHALLENGE_BOND]>>

\* Mutant: onlyOwner left out.
resolveChallengeRevertAnyCaller(c, id, archiverHasData) ==
    IF ChallengeOf(id).deadline = 0 THEN "ChallengeNotFound"
    ELSE IF ChallengeOf(id).resolved THEN "ChallengeAlreadyResolved"
    ELSE IF CHALLENGE_BOND > balance THEN "TransferFailed"
    ELSE "none"

resolveChallengeRevert(c, id, archiverHasData) ==
    IF c # OWNER THEN "OwnableUnauthorizedAccount"
    ELSE IF ChallengeOf(id).deadline = 0 THEN "ChallengeNotFound"
    ELSE IF ChallengeOf(id).resolved THEN "ChallengeAlreadyResolved"
    ELSE IF SumSent(resolveChallengeSent(id, archiverHasData)) > balance
         THEN "TransferFailed"
    ELSE "none"

\* Mutant: a slash never deactivates.
resolveChallengeNoDeactivate(c, id, archiverHasData) ==
    LET a == challenges[id].archiver
        slashAmount == slashAmountOf(a)
    IN
    /\ resolveChallengeRevert(c, id, archiverHasData) = "none"
    /\ challenges' = [challenges EXCEPT ![id].resolved = TRUE,
                                        ![id].archiverWon = archiverHasData]
    /\ balance' = balance - SumSent(resolveChallengeSent(id, archiverHasData))
    /\ IF archiverHasData
       THEN /\ archivers' = [archivers EXCEPT ![a].successfulChallenges = @ + 1]
            /\ UNCHANGED totalStake
       ELSE /\ archivers' = [archivers EXCEPT ![a].failedChallenges = @ + 1,
                                              ![a].stake = @ - slashAmount]
            /\ totalStake' = totalStake - slashAmount
    /\ UNCHANGED <<activeArchivers, archiverIndex, nextChallengeId, rewardPool,
                   accRewardPerStake, rewardDebt, blobArchivers, now, rewardsPaid, funded>>

resolveChallenge(c, id, archiverHasData) ==
    LET a == challenges[id].archiver
        slashAmount == slashAmountOf(a)
        low == archivers[a].stake - slashAmount < MIN_STAKE
    IN
    /\ resolveChallengeRevert(c, id, archiverHasData) = "none"
    /\ challenges' = [challenges EXCEPT ![id].resolved = TRUE,
                                        ![id].archiverWon = archiverHasData]
    /\ balance' = balance - SumSent(resolveChallengeSent(id, archiverHasData))
    /\ IF archiverHasData
       THEN /\ archivers' = [archivers EXCEPT ![a].successfulChallenges = @ + 1]
            /\ UNCHANGED <<activeArchivers, archiverIndex, totalStake>>
       ELSE /\ archivers' = [archivers EXCEPT ![a].failedChallenges = @ + 1,
                                              ![a].stake = @ - slashAmount,
                                              ![a].active = IF low THEN FALSE ELSE @]
            /\ totalStake' = totalStake - slashAmount
            /\ activeArchivers' = IF low THEN deactivatedList(a) ELSE activeArchivers
            /\ archiverIndex' = IF low THEN deactivatedIndex(a) ELSE archiverIndex
    /\ UNCHANGED <<nextChallengeId, rewardPool, accRewardPerStake, rewardDebt,
                   blobArchivers, now, rewardsPaid, funded>>

\* --------------------------------------------------- resolveExpiredChallenge
\* Mutant: the challenger gets the slashed amount without its bond.
resolveExpiredSentNoBond(id) ==
    <<[to |-> challenges[id].challenger,
       value |-> slashAmountOf(challenges[id].archiver)]>>

resolveExpiredChallengeSent(id) ==
    <<[to |-> challenges[id].challenger,
       value |-> slashAmountOf(challenges[id].archiver) + CHALLENGE_BOND]>>

\* Mutant: the resolved check left out.
resolveExpiredRevertNoResolvedCheck(c, id) ==
    IF ChallengeOf(id).deadline = 0 THEN "ChallengeNotFound"
    ELSE IF now < ChallengeOf(id).deadline THEN "ChallengePeriodNotExpired"
    ELSE IF CHALLENGE_BOND > balance THEN "TransferFailed"
    ELSE "none"

resolveExpiredChallengeRevert(c, id) ==
    IF ChallengeOf(id).deadline = 0 THEN "ChallengeNotFound"
    ELSE IF ChallengeOf(id).resolved THEN "ChallengeAlreadyResolved"
    ELSE IF now < ChallengeOf(id).deadline THEN "ChallengePeriodNotExpired"
    ELSE IF SumSent(resolveExpiredChallengeSent(id)) > balance THEN "TransferFailed"
    ELSE "none"

\* Mutant: totalStake not reduced by the slash.
resolveExpiredKeepsTotalStake(c, id) ==
    LET a == challenges[id].archiver
        slashAmount == slashAmountOf(a)
        low == archivers[a].stake - slashAmount < MIN_STAKE
    IN
    /\ resolveExpiredChallengeRevert(c, id) = "none"
    /\ challenges' = [challenges EXCEPT ![id].resolved = TRUE, ![id].archiverWon = FALSE]
    /\ archivers' = [archivers EXCEPT ![a].failedChallenges = @ + 1,
                                      ![a].stake = @ - slashAmount,
                                      ![a].active = IF low THEN FALSE ELSE @]
    /\ balance' = balance - SumSent(resolveExpiredChallengeSent(id))
    /\ activeArchivers' = IF low THEN deactivatedList(a) ELSE activeArchivers
    /\ archiverIndex' = IF low THEN deactivatedIndex(a) ELSE archiverIndex
    /\ UNCHANGED <<nextChallengeId, totalStake, rewardPool, accRewardPerStake, rewardDebt,
                   blobArchivers, now, rewardsPaid, funded>>

resolveExpiredChallenge(c, id) ==
    LET a == challenges[id].archiver
        slashAmount == slashAmountOf(a)
        low == archivers[a].stake - slashAmount < MIN_STAKE
    IN
    /\ resolveExpiredChallengeRevert(c, id) = "none"
    /\ challenges' = [challenges EXCEPT ![id].resolved = TRUE, ![id].archiverWon = FALSE]
    /\ archivers' = [archivers EXCEPT ![a].failedChallenges = @ + 1,
                                      ![a].stake = @ - slashAmount,
                                      ![a].active = IF low THEN FALSE ELSE @]
    /\ totalStake' = totalStake - slashAmount
    /\ balance' = balance - SumSent(resolveExpiredChallengeSent(id))
    /\ activeArchivers' = IF low THEN deactivatedList(a) ELSE activeArchivers
    /\ archiverIndex' = IF low THEN deactivatedIndex(a) ELSE archiverIndex
    /\ UNCHANGED <<nextChallengeId, rewardPool, accRewardPerStake, rewardDebt,
                   blobArchivers, now, rewardsPaid, funded>>

\* ------------------------------------------------ fundRewardPool and receive
\* Mutant: only half of the value is distributed.
fundRewardPoolHalf(c, value) ==
    /\ accRewardPerStake' = IF totalStake > 0
                            THEN accRewardPerStake + (value * SCALE) \div (2 * totalStake)
                            ELSE accRewardPerStake
    /\ rewardPool' = rewardPool + value
    /\ balance' = balance + value
    /\ funded' = funded + value
    /\ UNCHANGED <<archivers, activeArchivers, archiverIndex, challenges, nextChallengeId,
                   totalStake, rewardDebt, blobArchivers, now, rewardsPaid>>

\* Mutant: the accumulator also moves when nothing is staked.
fundRewardPoolNoStakeGuard(c, value) ==
    /\ accRewardPerStake' = IF totalStake > 0
                            THEN accRewardPerStake + (value * SCALE) \div totalStake
                            ELSE accRewardPerStake + value * SCALE
    /\ rewardPool' = rewardPool + value
    /\ balance' = balance + value
    /\ UNCHANGED <<archivers, activeArchivers, archiverIndex, challenges, nextChallengeId,
                   totalStake, rewardDebt, blobArchivers, now, rewardsPaid>>
    /\ funded' = funded + value

fundRewardPool(c, value) ==
    /\ accRewardPerStake' = IF totalStake > 0
                            THEN accRewardPerStake + (value * SCALE) \div totalStake
                            ELSE accRewardPerStake
    /\ rewardPool' = rewardPool + value
    /\ balance' = balance + value
    /\ UNCHANGED <<archivers, activeArchivers, archiverIndex, challenges, nextChallengeId,
                   totalStake, rewardDebt, blobArchivers, now, rewardsPaid>>
    /\ funded' = funded + value

\* Mutant: a direct transfer is added to the pool without being distributed.
receivePoolOnly(c, value) ==
    /\ rewardPool' = rewardPool + value
    /\ balance' = balance + value
    /\ funded' = funded + value
    /\ UNCHANGED <<archivers, activeArchivers, archiverIndex, challenges, nextChallengeId,
                   totalStake, accRewardPerStake, rewardDebt, blobArchivers, now, rewardsPaid>>

receive(c, value) ==
    /\ accRewardPerStake' = IF totalStake > 0
                            THEN accRewardPerStake + (value * SCALE) \div totalStake
                            ELSE accRewardPerStake
    /\ rewardPool' = rewardPool + value
    /\ balance' = balance + value
    /\ UNCHANGED <<archivers, activeArchivers, archiverIndex, challenges, nextChallengeId,
                   totalStake, rewardDebt, blobArchivers, now, rewardsPaid>>
    /\ funded' = funded + value

\* -------------------------------------------------------------- claimRewards
claimRewardsRevert(c) == claimRevert(c, balance)

claimRewardsSent(c) == claimSent(c)

\* Mutant: the claim also moves every other archiver's rewardDebt to its
\* accumulated amount.
claimRewardsSettlesAll(c) ==
    /\ claimRewardsRevert(c) = "none"
    /\ archivers' = [archivers EXCEPT ![c].lastClaimAt = claimLastClaimAt(c)]
    /\ rewardDebt' = [a \in Addr |-> IF a = c THEN claimDebt(c) ELSE Accumulated(a)]
    /\ balance' = balance - SumSent(claimRewardsSent(c))
    /\ rewardsPaid' = rewardsPaid + claimAmount(c)
    /\ UNCHANGED <<activeArchivers, archiverIndex, challenges, nextChallengeId, totalStake,
                   rewardPool, accRewardPerStake, blobArchivers, now, funded>>

claimRewards(c) ==
    /\ claimRewardsRevert(c) = "none"
    /\ archivers' = [archivers EXCEPT ![c].lastClaimAt = claimLastClaimAt(c)]
    /\ rewardDebt' = [rewardDebt EXCEPT ![c] = claimDebt(c)]
    /\ balance' = balance - SumSent(claimRewardsSent(c))
    /\ rewardsPaid' = rewardsPaid + claimAmount(c)
    /\ UNCHANGED <<activeArchivers, archiverIndex, challenges, nextChallengeId, totalStake,
                   rewardPool, accRewardPerStake, blobArchivers, now, funded>>

\* pendingRewards (view)
pendingRewardsRevert(a) ==
    IF ArchiverOf(a).stake = 0 THEN "none"
    ELSE IF Accumulated(a) < rewardDebt[a] THEN "Panic"
    ELSE "none"

pendingRewards(a) ==
    IF ArchiverOf(a).stake = 0 THEN 0 ELSE Accumulated(a) - rewardDebt[a]

\* ------------------------------------------------------------ getArchiverStats
\* The same read with the failed challenges in the numerator.
getArchiverStatsFailedRate(archiverAddr) ==
    LET archiver == ArchiverOf(archiverAddr)
        totalChallenges == archiver.successfulChallenges + archiver.failedChallenges
    IN  [stake |-> archiver.stake,
         blobCount |-> archiver.blobCount,
         successRate |-> IF totalChallenges = 0 THEN 100
                         ELSE (archiver.failedChallenges * 100) \div totalChallenges]

\* getArchiverStats (view): the three return values as a record.
getArchiverStats(archiverAddr) ==
    LET archiver == ArchiverOf(archiverAddr)
        totalChallenges == archiver.successfulChallenges + archiver.failedChallenges
    IN  [stake |-> archiver.stake,
         blobCount |-> archiver.blobCount,
         successRate |-> IF totalChallenges = 0 THEN 100
                         ELSE (archiver.successfulChallenges * 100) \div totalChallenges]

\* ------------------------------------------------------- indexer: server.js
\* The POST /post handler runs up to `await verifyAgent(author)`, is
\* suspended there while other handlers run, and runs to its end when the
\* registry answers.  The model takes requests that the per-IP middleware
\* postRateLimit (express-rate-limit) lets through and that carry every
\* field, a well-formed address and a content within the length limit; of a
\* post it keeps the id, the author and the nonce.

\* verifyAgent: the values the awaited call can resolve to.  A failing
\* registry call resolves to false for any address.
verifyAgent(address) ==
    IF toLowerCase(address) \in AgentHolders THEN {TRUE, FALSE} ELSE {FALSE}

\* verifySignature: the address recovered from the signature is the signer's
\* when the signature was made over this message, and some other address
\* otherwise.
verifySignature(message, signature, expectedAddress) ==
    /\ signature.message = message
    /\ toLowerCase(signature.signer) = toLowerCase(expectedAddress)

\* checkAgentRateLimit: the limit record after the lookup and the window
\* reset, the return value, and the map after the call.
limitOf(address) ==
    LET limit == IF agentRateLimits[address] = NoLimit
                 THEN [count |-> 0, resetTime |-> clock + windowMs]
                 ELSE agentRateLimits[address]
    IN  IF clock > limit.resetTime
        THEN [count |-> 0, resetTime |-> clock + windowMs]
        ELSE limit

checkAgentRateLimit(address) == limitOf(address).count < maxPosts

checkAgentRateLimitMap(address) ==
    IF checkAgentRateLimit(address)
    THEN [agentRateLimits EXCEPT ![address] = [limitOf(address) EXCEPT !.count = @ + 1]]
    ELSE IF agentRateLimits[address] = NoLimit THEN agentRateLimits
    ELSE [agentRateLimits EXCEPT ![address] = limitOf(address)]

\* The requests that can arrive from the given author spellings: any nonce,
\* a timestamp of now or of two units ago, signed by any signer over the
\* request's own timestamp and nonce.
Requests(authors) ==
    {[author |-> au, nonce |-> n, timestamp |-> ts,
      signature |-> Sign(k, Message(ts, n))] :
        au \in authors, n \in 0 .. MaxNonce,
        ts \in {clock, clock - 2} \cap Nat, k \in Signers}

\* The response of the part of the handler before the await: the error, or
\* "none" when the handler reaches the await.
postReject(req) ==
    IF req.timestamp = 0 THEN "MissingFields"
    ELSE IF clock - req.timestamp > TimestampWindow
            \/ req.timestamp - clock > TimestampWindow THEN "BadTimestamp"
    ELSE IF req.nonce <= nonces[toLowerCase(req.author)] THEN "InvalidNonce"
    ELSE "none"

\* The handler from the request to the await; a rejected request is answered
\* at once and changes nothing.
PostStart(slot, req) ==
    /\ inflight[slot] = NoRequest
    /\ postReject(req) = "none"
    /\ inflight' = [inflight EXCEPT ![slot] = req]
    /\ UNCHANGED <<posts, nonces, agentRateLimits, clock, admitted>>

\* The response of the part of the handler after the await.
postOutcome(req, isRegistered) ==
    IF ~isRegistered THEN "NotRegistered"
    ELSE IF ~checkAgentRateLimit(toLowerCase(req.author)) THEN "RateLimited"
    ELSE IF ~verifySignature(Message(req.timestamp, req.nonce), req.signature, req.author)
         THEN "InvalidSignature"
    ELSE "Created"

\* The handler from the await to its end.
PostResume(slot, isRegistered) ==
    LET req == inflight[slot]
        key == toLowerCase(req.author)
        outcome == postOutcome(req, isRegistered)
    IN  /\ req # NoRequest
        /\ isRegistered \in verifyAgent(req.author)
        /\ inflight' = [inflight EXCEPT ![slot] = NoRequest]
        /\ agentRateLimits' = IF isRegistered THEN checkAgentRateLimitMap(key)
                              ELSE agentRateLimits
        /\ admitted' = IF isRegistered /\ checkAgentRateLimit(key)
                       THEN [admitted EXCEPT ![key] = Append(@, clock)]
                       ELSE admitted
        /\ IF outcome = "Created"
           THEN /\ nonces' = [nonces EXCEPT ![key] = req.nonce]
                /\ posts' = Append(posts, [id |-> Len(posts), author |-> req.author,
                                           nonce |-> req.nonce])
           ELSE UNCHANGED <<nonces, posts>>
        /\ UNCHANGED clock

\* The passing of Date.now().
ClockTick ==
    /\ clock' = clock + 1
    /\ UNCHANGED <<posts, nonces, agentRateLimits, inflight, admitted>>

\* --------------------------------------------------------------------- time
Tick ==
    /\ now' = now + 1
    /\ UNCHANGED <<archivers, activeArchivers, archiverIndex, challenges, nextChallengeId,
                   totalStake, rewardPool, accRewardPerStake, rewardDebt, blobArchivers,
                   balance, rewardsPaid, funded>>

\* ------------------------------------------------------------- environment
TopUps(c) == {t - archivers[c].stake : t \in {l \in StakeLevels : l > archivers[c].stake}}

Withdrawals(c) == {v \in 1 .. archivers[c].stake :
                      archivers[c].stake - v \in {0, MIN_STAKE}}

\* One step of the contract: any external function called by any of the
\* callers with any of the arguments above, or the passing of a day.  maxPool
\* bounds the total ever funded.
Env(maxPool) ==
    \/ \E c \in Registrants, v \in StakeLevels : register(c, v) /\ UNCHANGED indexerVars
    \/ \E c \in Registrants : \E v \in TopUps(c) : addStake(c, v) /\ UNCHANGED indexerVars
    \/ \E c \in Registrants : \E v \in Withdrawals(c) : withdrawStake(c, v) /\ UNCHANGED indexerVars
    \/ \E c \in Registrants : deactivate(c) /\ UNCHANGED indexerVars
    \/ \E c \in Committers, h \in EnvHash :
          Len(blobArchivers[h]) < MaxCommits /\ commitToBlob(c, h) /\ UNCHANGED indexerVars
    \/ \E c \in Challengers, a \in Registrants, h \in EnvHash :
          nextChallengeId < MaxChallenges /\ createChallenge(c, a, h, CHALLENGE_BOND) /\ UNCHANGED indexerVars
    \/ \E c \in Addr, id \in ChallengeIds, b \in BOOLEAN : resolveChallenge(c, id, b) /\ UNCHANGED indexerVars
    \/ \E c \in Addr, id \in ChallengeIds : resolveExpiredChallenge(c, id) /\ UNCHANGED indexerVars
    \/ \E c \in Addr, v \in FundValues :
          rewardPool + v <= maxPool /\ fundRewardPool(c, v) /\ UNCHANGED indexerVars
    \/ \E c \in Addr, v \in FundValues :
          rewardPool + v <= maxPool /\ receive(c, v) /\ UNCHANGED indexerVars
    \/ \E c \in Registrants : claimRewards(c) /\ UNCHANGED indexerVars
    \/ now < MaxTime /\ Tick /\ UNCHANGED indexerVars

Next == Env(MaxPool)

Spec == Init /\ [][Next]_vars

\* The same contract with room for a second funding.
NextFunded == Env(MaxPoolFunded)

SpecFunded == Init /\ [][NextFunded]_vars

\* The reward accumulator on its own: archivers that stake MIN_STAKE or twice
\* MIN_STAKE, fundings of every value up to MaxFundValue, claims,
\* deactivation and full withdrawal.
NextProportional ==
    \/ \E c \in Registrants, v \in {MIN_STAKE, 2 * MIN_STAKE} : register(c, v) /\ UNCHANGED indexerVars
    \/ \E v \in 1 .. MaxFundValue : funded + v <= MaxPoolFunded /\ fundRewardPool(OWNER, v) /\ UNCHANGED indexerVars
    \/ \E c \in Registrants : claimRewards(c) /\ UNCHANGED indexerVars
    \/ \E c \in Registrants : deactivate(c) /\ UNCHANGED indexerVars
    \/ \E c \in Registrants : archivers[c].stake > 0 /\ withdrawStake(c, archivers[c].stake) /\ UNCHANGED indexerVars

SpecProportional == Init /\ [][NextProportional]_vars

\* The challenge protocol on its own, with room for a second challenge:
\* registration with MIN_STAKE, deactivation, challenges, both resolutions and
\* the passing of days.
NextChallenge ==
    \/ \E c \in Registrants : register(c, MIN_STAKE) /\ UNCHANGED indexerVars
    \/ \E c \in Registrants : deactivate(c) /\ UNCHANGED indexerVars
    \/ \E c \in Challengers, a \in Registrants, h \in EnvHash :
          nextChallengeId <= MaxChallenges /\ createChallenge(c, a, h, CHALLENGE_BOND) /\ UNCHANGED indexerVars
    \/ \E id \in ChallengeIds, b \in BOOLEAN : resolveChallenge(OWNER, id, b) /\ UNCHANGED indexerVars
    \/ \E id \in ChallengeIds : resolveExpiredChallenge(OWNER, id) /\ UNCHANGED indexerVars
    \/ now < MaxTime /\ Tick /\ UNCHANGED indexerVars

SpecChallenge == Init /\ [][NextChallenge]_vars

\* The blobHashes arguments tried: every batch of at most two hashes, and one
\* of MAX_BATCH_SIZE + 1 hashes.
Batches ==
    {<<>>} \cup {<<h>> : h \in Hash} \cup {<<h, g>> : h, g \in Hash}
           \cup {[i \in 1 .. (MAX_BATCH_SIZE + 1) |-> "h2"]}

\* The number of commitments recorded, over all blob hashes.
Committed == SumOver([h \in Hash |-> Len(blobArchivers[h])], Hash)

\* The commitment index on its own: every address may register with
\* MIN_STAKE, deactivate and withdraw everything; a and b commit, one hash at
\* a time or in batches, until MaxCommitted commitments are recorded.
NextCommit ==
    \/ \E c \in Addr : register(c, MIN_STAKE) /\ UNCHANGED indexerVars
    \/ \E c \in Addr : deactivate(c) /\ UNCHANGED indexerVars
    \/ \E c \in Addr : archivers[c].stake > 0 /\ withdrawStake(c, archivers[c].stake) /\ UNCHANGED indexerVars
    \/ \E c \in Registrants, h \in Hash :
          Committed < MaxCommitted /\ commitToBlob(c, h) /\ UNCHANGED indexerVars
    \/ \E c \in Registrants, hs \in Batches :
          Committed < MaxCommitted /\ batchCommitToBlobs(c, hs) /\ UNCHANGED indexerVars

SpecCommit == Init /\ [][NextCommit]_vars

\* Stakes and challenges together, without rewards: registration with and
\* top-up to the StakeLevels, withdrawal, deactivation, up to
\* MaxChallenges + 1 challenges open at the same time, both resolutions and
\* the passing of days.
NextBonded ==
    \/ \E c \in Registrants, v \in StakeLevels : register(c, v) /\ UNCHANGED indexerVars
    \/ \E c \in Registrants : \E v \in TopUps(c) : addStake(c, v) /\ UNCHANGED indexerVars
    \/ \E c \in Registrants : \E v \in Withdrawals(c) : withdrawStake(c, v) /\ UNCHANGED indexerVars
    \/ \E c \in Registrants : deactivate(c) /\ UNCHANGED indexerVars
    \/ \E c \in Challengers, a \in Registrants, h \in EnvHash :
          nextChallengeId <= MaxChallenges /\ createChallenge(c, a, h, CHALLENGE_BOND) /\ UNCHANGED indexerVars
    \/ \E id \in ChallengeIds, b \in BOOLEAN : resolveChallenge(OWNER, id, b) /\ UNCHANGED indexerVars
    \/ \E id \in ChallengeIds : resolveExpiredChallenge(OWNER, id) /\ UNCHANGED indexerVars
    \/ now < MaxTime /\ Tick /\ UNCHANGED indexerVars

SpecBonded == Init /\ [][NextBonded]_vars

\* One step of the indexer: a request of one of the authors arrives and its
\* handler is suspended in one of the slots, a suspended handler resumes, or
\* time passes up to maxClock.
IndexerEnv(slots, authors, maxClock) ==
    \/ \E slot \in slots, req \in Requests(authors) :
          PostStart(slot, req) /\ UNCHANGED registryVars
    \/ \E slot \in slots, isRegistered \in BOOLEAN :
          /\ inflight[slot] # NoRequest
          /\ postOutcome(inflight[slot], isRegistered) = "Created" => Len(posts) < MaxPosts
          /\ Len(admitted[toLowerCase(inflight[slot].author)]) < MaxAdmitted
          /\ PostResume(slot, isRegistered) /\ UNCHANGED registryVars
    \/ clock < maxClock /\ ClockTick /\ UNCHANGED registryVars

\* Concurrent handlers over a short time.
NextIndexer == IndexerEnv(Slots, Spellings, MaxClockShort)

SpecIndexer == Init /\ [][NextIndexer]_vars

\* One handler at a time for one author, over more than a rate-limit window.
NextRateLimit == IndexerEnv({1}, {"a"}, MaxClock)

SpecRateLimit == Init /\ [][NextRateLimit]_vars

\* ------------------------------------------------------------------- claims
Registered(a) == archivers[a].registeredAt # 0

Exists(id) == challenges[id].deadline # 0

Expired(id) == Exists(id) /\ ~challenges[id].resolved /\ now >= challenges[id].deadline

\* A step that resolves challenge id against the archiver.
SlashStep(id) ==
    \/ resolveChallenge(OWNER, id, FALSE)
    \/ \E c \in Addr : resolveExpiredChallenge(c, id)

\* a is an element of activeArchivers.
InActiveList(a) == \E i \in 1 .. Len(activeArchivers) : activeArchivers[i] = a

\* C1: totalStake equals the sum of the stake fields of all archiver records,
\* in every reachable state.
Conservation == totalStake = SumOver([a \in Addr |-> archivers[a].stake], Addr)

\* C1 witness: one archiver was slashed and keeps stake, another withdrew all.
ConservationWitness ==
    \E a, b \in Addr :
        /\ archivers[a].failedChallenges > 0 /\ archivers[a].stake > 0
        /\ Registered(b) /\ archivers[b].stake = 0

\* C2: the total transferred by reward settlement never exceeds the total
\* funded.
NoFreeRewards == rewardsPaid <= funded

\* C3: every step that changes an archiver's stake leaves its rewardDebt at
\* the settlement point of the new stake, so that its pending reward is 0.
SettleBeforeMutate ==
    [][\A a \in Addr :
          archivers'[a].stake # archivers[a].stake
              => rewardDebt'[a] = (archivers'[a].stake * accRewardPerStake') \div SCALE]_vars

\* C4: rewardPool is the amount funded and not yet paid out by settlement.
RewardPoolIsUnclaimed == rewardPool = funded - rewardsPaid

\* C5: a resolved challenge never changes again, and resolveChallenge (by the
\* owner) and resolveExpiredChallenge (by anyone) on it end with
\* ChallengeAlreadyResolved.
ChallengeTerminality ==
    /\ [][\A id \in ChallengeIds :
             challenges[id].resolved => challenges'[id] = challenges[id]]_vars
    /\ [](\A id \in ChallengeIds :
             challenges[id].resolved =>
                /\ \A b \in BOOLEAN :
                      resolveChallengeRevert(OWNER, id, b) = "ChallengeAlreadyResolved"
                /\ \A c \in Addr :
                      resolveExpiredChallengeRevert(c, id) = "ChallengeAlreadyResolved")

\* C5 witness: a challenge the archiver won is past its deadline, so that the
\* expiry path would apply to it were it not resolved.
ChallengeTerminalityWitness ==
    \E id \in ChallengeIds :
        /\ challenges[id].resolved /\ challenges[id].archiverWon
        /\ now >= challenges[id].deadline
        /\ archivers[challenges[id].archiver].stake >= MIN_STAKE

\* C6: a resolution against an archiver with stake S takes
\* floor(S * SLASH_PERCENT / 100) from its stake and from totalStake, pays the
\* challenger that amount plus CHALLENGE_BOND in one transfer, and adds 1 to
\* failedChallenges and nothing to successfulChallenges.
SlashEffect ==
    [][\A id \in ChallengeIds :
          SlashStep(id) =>
             LET a == challenges[id].archiver
                 S == archivers[a].stake
                 cut == (S * SLASH_PERCENT) \div 100
                 pay == <<[to |-> challenges[id].challenger, value |-> cut + CHALLENGE_BOND]>>
             IN  /\ archivers'[a].stake = S - cut
                 /\ totalStake' = totalStake - cut
                 /\ resolveChallengeSent(id, FALSE) = pay
                 /\ resolveExpiredChallengeSent(id) = pay
                 /\ balance' = balance - (cut + CHALLENGE_BOND)
                 /\ archivers'[a].failedChallenges = archivers[a].failedChallenges + 1
                 /\ archivers'[a].successfulChallenges = archivers[a].successfulChallenges]_vars

\* C6 witness: an archiver lost a challenge and was cut from MIN_STAKE to
\* MIN_STAKE - 1.
SlashEffectWitness ==
    \E id \in ChallengeIds :
        /\ challenges[id].resolved /\ ~challenges[id].archiverWon
        /\ archivers[challenges[id].archiver].failedChallenges = 1
        /\ archivers[challenges[id].archiver].stake = MIN_STAKE - 1

\* C7: resolveChallenge(id, true) adds 1 to the archiver's
\* successfulChallenges and changes nothing else of its record, transfers
\* CHALLENGE_BOND to the archiver and nothing to a challenger other than the
\* archiver, and leaves rewardDebt, totalStake and the active list unchanged.
ArchiverWinsEffect ==
    [][\A id \in ChallengeIds :
          resolveChallenge(OWNER, id, TRUE) =>
             LET a == challenges[id].archiver
                 ch == challenges[id].challenger
             IN  /\ archivers' = [archivers EXCEPT ![a].successfulChallenges = @ + 1]
                 /\ resolveChallengeSent(id, TRUE) = <<[to |-> a, value |-> CHALLENGE_BOND]>>
                 /\ ch # a => SentTo(resolveChallengeSent(id, TRUE), ch) = 0
                 /\ balance' = balance - CHALLENGE_BOND
                 /\ rewardDebt' = rewardDebt
                 /\ totalStake' = totalStake
                 /\ activeArchivers' = activeArchivers
                 /\ archiverIndex' = archiverIndex]_vars

\* C7 witness: an archiver with stake has won a challenge opened by another
\* account.
ArchiverWinsWitness ==
    \E id \in ChallengeIds :
        /\ challenges[id].resolved /\ challenges[id].archiverWon
        /\ challenges[id].challenger # challenges[id].archiver
        /\ archivers[challenges[id].archiver].successfulChallenges = 1
        /\ archivers[challenges[id].archiver].stake > 0

\* C8: every resolveExpiredChallenge step is also a resolveChallenge(id, false)
\* step by the owner from the same state: same resulting state, same transfers.
ExpiredEqualsResolveFalse ==
    [][\A c \in Addr, id \in ChallengeIds :
          resolveExpiredChallenge(c, id) =>
             /\ resolveChallenge(OWNER, id, FALSE)
             /\ resolveExpiredChallengeSent(id) = resolveChallengeSent(id, FALSE)]_vars

\* C8 witness: an expired challenge was resolved against an archiver that the
\* slash deactivated.
ExpiredEqualsResolveFalseWitness ==
    \E id \in ChallengeIds :
        /\ challenges[id].resolved /\ ~challenges[id].archiverWon
        /\ now >= challenges[id].deadline
        /\ archivers[challenges[id].archiver].stake = MIN_STAKE - 1
        /\ ~archivers[challenges[id].archiver].active

\* C9: a challenge becomes resolved only by resolveChallenge called by the
\* owner or by resolveExpiredChallenge at now >= deadline; resolveChallenge by
\* anyone else is rejected, and resolveExpiredChallenge before the deadline
\* ends with ChallengePeriodNotExpired.
ResolutionPaths ==
    /\ [][\A id \in ChallengeIds :
             (~challenges[id].resolved /\ challenges'[id].resolved) =>
                \/ \E b \in BOOLEAN : resolveChallenge(OWNER, id, b)
                \/ /\ now >= challenges[id].deadline
                   /\ \E c \in Addr : resolveExpiredChallenge(c, id)]_vars
    /\ [](\A id \in ChallengeIds, c \in Addr \ {OWNER}, b \in BOOLEAN :
             resolveChallengeRevert(c, id, b) = "OwnableUnauthorizedAccount")
    /\ [](\A id \in ChallengeIds, c \in Addr :
             (Exists(id) /\ ~challenges[id].resolved /\ now < challenges[id].deadline)
                => resolveExpiredChallengeRevert(c, id) = "ChallengePeriodNotExpired")

\* C9 witness: a challenge is open before its deadline while its archiver
\* holds stake.
ResolutionPathsWitness ==
    \E id \in ChallengeIds :
        /\ Exists(id) /\ ~challenges[id].resolved /\ now < challenges[id].deadline
        /\ archivers[challenges[id].archiver].stake >= MIN_STAKE

\* C10: resolveExpiredChallenge succeeds, whoever calls it, on every
\* unresolved challenge whose deadline has passed.
ExpiredAlwaysResolvable ==
    \A id \in ChallengeIds, c \in Addr :
        Expired(id) => resolveExpiredChallengeRevert(c, id) = "none"

\* C11: after a resolution against an archiver (resolveChallenge(id, false)
\* or resolveExpiredChallenge), the archiver is inactive and not in
\* activeArchivers when its remaining stake is below MIN_STAKE; otherwise its
\* active flag and its membership of the list are as before.
SlashDeactivation ==
    [][\A id \in ChallengeIds :
          SlashStep(id) =>
             LET a == challenges[id].archiver IN
             IF archivers'[a].stake < MIN_STAKE
             THEN /\ ~archivers'[a].active
                  /\ ~InActiveList(a)'
                  /\ archiverIndex'[a] = 0
             ELSE /\ archivers'[a].active = archivers[a].active
                  /\ InActiveList(a)' = InActiveList(a)]_vars

\* C11 witness: a slash brought an archiver below MIN_STAKE and removed it
\* from a list in which another archiver remains.
SlashDeactivationWitness ==
    \E id \in ChallengeIds :
        LET a == challenges[id].archiver IN
        /\ challenges[id].resolved /\ ~challenges[id].archiverWon
        /\ archivers[a].stake > 0 /\ archivers[a].stake < MIN_STAKE
        /\ ~archivers[a].active /\ ~InActiveList(a)
        /\ Len(activeArchivers) = 1

\* C12: no withdrawStake step leaves the caller with 0 < stake < MIN_STAKE.
\* For a registered caller, withdrawStake(amount) with amount > stake ends
\* with WithdrawalExceedsStake, and one whose result would be nonzero and below
\* MIN_STAKE ends with StakeBelowMinimum; a call that ends with either is not
\* a step: stake, totalStake and balance stay as they are.
MinimumStakeEnforcement ==
    /\ [][\A c \in Addr :
             (\E v \in 0 .. archivers[c].stake : withdrawStake(c, v))
                => archivers'[c].stake = 0 \/ archivers'[c].stake >= MIN_STAKE]_vars
    /\ [](\A c \in Addr : Registered(c) =>
             \A amount \in 0 .. (archivers[c].stake + 1) :
                LET rest == archivers[c].stake - amount
                    r == withdrawStakeRevert(c, amount)
                IN  /\ rest < 0 => r = "WithdrawalExceedsStake"
                    /\ (rest > 0 /\ rest < MIN_STAKE) => r = "StakeBelowMinimum"
                    /\ r = "none" => (rest = 0 \/ rest >= MIN_STAKE))
    /\ [][\A c \in Addr : \A amount \in 0 .. (archivers[c].stake + 1) :
             withdrawStakeRevert(c, amount) \in {"WithdrawalExceedsStake", "StakeBelowMinimum"}
                => ~withdrawStake(c, amount)]_vars

\* C12 witness: after a full withdrawal by one archiver, another holds
\* MIN_STAKE + 1, from which withdrawing 1 is allowed, 2 would leave less than
\* MIN_STAKE, and MIN_STAKE + 2 is more than it has.
MinimumStakeEnforcementWitness ==
    \E c, b \in Addr :
        /\ Registered(b) /\ archivers[b].stake = 0
        /\ archivers[c].stake = MIN_STAKE + 1
        /\ withdrawStakeRevert(c, 1) = "none"
        /\ withdrawStakeRevert(c, 2) = "StakeBelowMinimum"
        /\ withdrawStakeRevert(c, MIN_STAKE + 2) = "WithdrawalExceedsStake"

\* C13: accRewardPerStake never decreases; a step changes it only if it is a
\* fundRewardPool or a direct transfer (receive) made while totalStake > 0.
MonotonicAccumulator ==
    [][/\ accRewardPerStake' >= accRewardPerStake
       /\ accRewardPerStake' # accRewardPerStake =>
             /\ totalStake > 0
             /\ \E c \in Addr, v \in FundValues :
                   fundRewardPool(c, v) \/ receive(c, v)]_vars

\* C13 witness: the accumulator has been raised twice, and stake has been
\* withdrawn and rewards paid since.
MonotonicAccumulatorWitness ==
    /\ \E v \in FundValues : accRewardPerStake > (v * SCALE) \div MIN_STAKE
    /\ rewardsPaid > 0
    /\ \E a \in Addr : Registered(a) /\ archivers[a].stake = 0

\* C14: a claimRewards step by c transfers c's pending reward, and a second
\* claimRewards by c from the state it leaves succeeds, transfers nothing and
\* changes nothing.
SettlementIdempotence ==
    /\ [][\A c \in Addr :
             claimRewards(c) =>
                /\ SumSent(claimRewardsSent(c)) = pendingRewards(c)
                /\ balance' = balance - pendingRewards(c)
                /\ claimRewardsRevert(c)' = "none"
                /\ claimRewardsSent(c)' = <<>>
                /\ claimDebt(c)' = rewardDebt'[c]
                /\ claimLastClaimAt(c)' = archivers'[c].lastClaimAt]_vars
    /\ [][\A c \in Addr :
             (claimRewards(c) /\ claimRewardsSent(c) = <<>>) => UNCHANGED vars]_vars

\* C14 witness: an archiver with stake was paid a reward on a later day than
\* it registered and has nothing pending now.
SettlementIdempotenceWitness ==
    \E c \in Addr :
        /\ archivers[c].stake > 0 /\ rewardDebt[c] > 0 /\ rewardsPaid > 0
        /\ archivers[c].lastClaimAt > archivers[c].registeredAt
        /\ pendingRewardsRevert(c) = "none" /\ pendingRewards(c) = 0

\* C15: claimRewards by a caller with nothing to collect succeeds and
\* transfers nothing: a caller with no stake (never registered or fully
\* withdrawn), and an archiver that had nothing pending when it was slashed,
\* right after the slash.
ClaimNeverFails ==
    /\ [](\A c \in Addr :
             archivers[c].stake = 0 =>
                claimRewardsRevert(c) = "none" /\ claimRewardsSent(c) = <<>>)
    /\ [][\A id \in ChallengeIds :
             LET a == challenges[id].archiver IN
             (SlashStep(id) /\ pendingRewardsRevert(a) = "none" /\ pendingRewards(a) = 0)
                => (claimRewardsRevert(a)' = "none" /\ claimRewardsSent(a)' = <<>>)]_vars

\* C16: in every reachable state pendingRewards(a) returns, for every address
\* a, the amount that claimRewards called by a in that state transfers.
PendingMatchesClaim ==
    \A a \in Addr :
        /\ pendingRewardsRevert(a) = "none"
        /\ pendingRewards(a) = IF claimRewardsRevert(a) = "none"
                               THEN SumSent(claimRewardsSent(a))
                               ELSE 0

RegisterOnce ==
    /\ [](\A c \in Addr :
             /\ registerRevert(c, MIN_STAKE - 1) = "InsufficientStake"
             /\ Registered(c) =>
                   \A v \in StakeLevels : registerRevert(c, v) = "ArchiverAlreadyRegistered")
    /\ [][\A c \in Addr :
             Registered(c) => archivers'[c].registeredAt = archivers[c].registeredAt]_vars
    /\ [][\A c \in Addr, v \in StakeLevels :
             register(c, v) =>
                /\ ~Registered(c)
                /\ archivers'[c] = [stake |-> v, registeredAt |-> now, lastClaimAt |-> now,
                                    blobCount |-> 0, successfulChallenges |-> 0,
                                    failedChallenges |-> 0, active |-> TRUE]
                /\ InActiveList(c)'
                /\ totalStake' = totalStake + v]_vars

\* C18 witness: one address has withdrawn all its stake, another was
\* deactivated by a slash, and neither can register again.
RegisterOnceWitness ==
    \E c, b \in Addr :
        /\ Registered(c) /\ archivers[c].stake = 0 /\ ~archivers[c].active
        /\ Registered(b) /\ archivers[b].failedChallenges > 0 /\ ~archivers[b].active
        /\ registerRevert(c, MIN_STAKE) = "ArchiverAlreadyRegistered"
        /\ registerRevert(b, MIN_STAKE) = "ArchiverAlreadyRegistered"
        /\ c # b

\* C19: right after a register step the new archiver's pendingRewards is 0,
\* whatever accRewardPerStake was, and pendingRewards of every other address
\* is what it was before the step.
RegisterOwesNothing ==
    [][\A c \in Addr, v \in StakeLevels :
          register(c, v) =>
             /\ pendingRewardsRevert(c)' = "none"
             /\ pendingRewards(c)' = 0
             /\ \A other \in Addr \ {c} :
                   /\ pendingRewardsRevert(other)' = pendingRewardsRevert(other)
                   /\ pendingRewards(other)' = pendingRewards(other)]_vars

\* C19 witness: an archiver that registered after a funding (its rewardDebt
\* is positive though nothing was ever paid) has nothing pending, while an
\* archiver that was there before has.
RegisterOwesNothingWitness ==
    \E c, b \in Addr :
        /\ archivers[c].stake > 0 /\ rewardDebt[c] > 0 /\ rewardsPaid = 0
        /\ archivers[c].lastClaimAt = archivers[c].registeredAt
        /\ pendingRewards(c) = 0
        /\ archivers[b].stake > 0 /\ pendingRewards(b) > 0

\* The fields of c's record that a withdrawal has no reason to touch are the
\* same after the step.
RecordKept(c) ==
    /\ archivers'[c].registeredAt = archivers[c].registeredAt
    /\ archivers'[c].blobCount = archivers[c].blobCount
    /\ archivers'[c].successfulChallenges = archivers[c].successfulChallenges
    /\ archivers'[c].failedChallenges = archivers[c].failedChallenges

\* C20: after withdrawStake(amount) with amount = the caller's stake, the
\* caller has stake 0, is inactive and not in activeArchivers, its record is
\* kept, and it has received amount plus the pending reward that the call
\* settles, the stake in a transfer of exactly amount.
FullWithdrawal ==
    [][\A c \in Addr :
          LET amount == archivers[c].stake
              sent == withdrawStakeSent(c, amount)
          IN  withdrawStake(c, amount) =>
                 /\ archivers'[c].stake = 0
                 /\ ~archivers'[c].active
                 /\ ~InActiveList(c)'
                 /\ archiverIndex'[c] = 0
                 /\ sent[Len(sent)] = [to |-> c, value |-> amount]
                 /\ SentTo(sent, c) = amount + pendingRewards(c)
                 /\ balance' = balance - (amount + pendingRewards(c))
                 /\ totalStake' = totalStake - amount
                 /\ RecordKept(c)]_vars

\* C20 witness: an archiver with a commitment has withdrawn all its stake,
\* rewards were paid, and another archiver remains in the list.
FullWithdrawalWitness ==
    \E c \in Addr :
        /\ Registered(c) /\ archivers[c].stake = 0 /\ ~archivers[c].active
        /\ ~InActiveList(c) /\ archivers[c].blobCount > 0
        /\ rewardsPaid > 0 /\ Len(activeArchivers) = 1

\* C20 as stated: the caller of a full withdrawal receives exactly amount.
FullWithdrawalReceivesAmount ==
    [][\A c \in Addr :
          LET amount == archivers[c].stake IN
          withdrawStake(c, amount) =>
             /\ archivers'[c].stake = 0
             /\ ~archivers'[c].active
             /\ ~InActiveList(c)'
             /\ SentTo(withdrawStakeSent(c, amount), c) = amount
             /\ RecordKept(c)]_vars

\* The set of addresses in activeArchivers.
ActiveSet == {activeArchivers[i] : i \in 1 .. Len(activeArchivers)}

\* C21: a deactivate step by c clears c's active flag and takes c, and only
\* c, out of activeArchivers; it leaves the rest of c's record, every other
\* record, rewardDebt, totalStake, rewardPool, accRewardPerStake and the
\* balance as they are.  deactivate by an address that is not active, a
\* never-registered one included, ends with ArchiverNotActive.
DeactivateEffect ==
    /\ [][\A c \in Addr :
             deactivate(c) =>
                /\ archivers[c].active
                /\ archivers' = [archivers EXCEPT ![c].active = FALSE]
                /\ ActiveSet' = ActiveSet \ {c}
                /\ archiverIndex'[c] = 0
                /\ rewardDebt' = rewardDebt
                /\ totalStake' = totalStake
                /\ rewardPool' = rewardPool
                /\ accRewardPerStake' = accRewardPerStake
                /\ balance' = balance]_vars
    /\ [](\A c \in Addr :
             ~archivers[c].active => deactivateRevert(c) = "ArchiverNotActive")

\* C21 witness: an archiver that was never slashed is inactive though it
\* holds at least MIN_STAKE and has a positive rewardDebt.
DeactivateEffectWitness ==
    \E c \in Addr :
        /\ ~archivers[c].active /\ archivers[c].stake >= MIN_STAKE
        /\ archivers[c].failedChallenges = 0 /\ rewardDebt[c] > 0
        /\ c \notin ActiveSet /\ ActiveSet # {}

\* C22: in every reachable state activeArchivers has no duplicates, lists
\* exactly the addresses whose active flag is set, and archiverIndex gives
\* each listed address its 1-based position and every other address 0.
ActiveSetConsistency ==
    /\ \A i, j \in 1 .. Len(activeArchivers) :
           activeArchivers[i] = activeArchivers[j] => i = j
    /\ \A a \in Addr : InActiveList(a) <=> archivers[a].active
    /\ \A i \in 1 .. Len(activeArchivers) : archiverIndex[activeArchivers[i]] = i
    /\ \A a \in Addr : ~InActiveList(a) => archiverIndex[a] = 0

\* C22 witness: of two archivers the one registered first has been removed,
\* so the later one was moved from position 2 to position 1.
ActiveSetConsistencyWitness ==
    \E a, b \in Addr :
        /\ Registered(a) /\ ~archivers[a].active
        /\ archivers[a].registeredAt < archivers[b].registeredAt
        /\ activeArchivers = <<b>> /\ archiverIndex[b] = 1

\* C23: fundRewardPool with value v adds v to rewardPool and to the balance,
\* leaves accRewardPerStake alone when totalStake = 0 and adds
\* floor(v * SCALE / totalStake) to it otherwise, and changes nothing else of
\* the ledger; a direct transfer of v (receive) is the same step.
FundEffect ==
    [][\A c \in Addr, v \in FundValues :
          /\ fundRewardPool(c, v) =>
                /\ rewardPool' = rewardPool + v
                /\ balance' = balance + v
                /\ accRewardPerStake' = IF totalStake = 0 THEN accRewardPerStake
                                        ELSE accRewardPerStake + (v * SCALE) \div totalStake
                /\ UNCHANGED <<archivers, activeArchivers, archiverIndex, challenges,
                               totalStake, rewardDebt, blobArchivers>>
          /\ fundRewardPool(c, v) <=> receive(c, v)]_vars

\* C23 witness: value was funded while nothing was staked (the pool is
\* positive, the accumulator still 0) and stake has come in since.
FundEffectWitness ==
    rewardPool > 0 /\ accRewardPerStake = 0 /\ totalStake > 0

\* C24: a funding of x made while totalStake = T > 0 raises the pending
\* reward of every archiver with stake s, active or not, by
\* floor(s * (acc + floor(x * SCALE / T)) / SCALE) - floor(s * acc / SCALE),
\* which is its whole pending reward when its rewardDebt was at the settlement
\* point; and an archiver with twice the stake of another gains at least as
\* much as the other.
ProportionalRewards ==
    [][\A x \in 1 .. MaxFundValue :
          (fundRewardPool(OWNER, x) /\ totalStake > 0) =>
             LET acc2 == accRewardPerStake + (x * SCALE) \div totalStake
                 gain(s) == (s * acc2) \div SCALE - (s * accRewardPerStake) \div SCALE
             IN  \A a \in Addr :
                    /\ pendingRewardsRevert(a) = "none" =>
                          pendingRewards(a)' - pendingRewards(a) = gain(archivers[a].stake)
                    /\ rewardDebt[a] = (archivers[a].stake * accRewardPerStake) \div SCALE =>
                          pendingRewards(a)' = gain(archivers[a].stake)
                    /\ \A b \in Addr :
                          archivers[a].stake = 2 * archivers[b].stake =>
                             pendingRewards(a)' - pendingRewards(a)
                                >= pendingRewards(b)' - pendingRewards(b)]_vars

\* C24 witness: after two fundings an active archiver holds twice the stake
\* of an inactive one, and both have a reward pending.
ProportionalRewardsWitness ==
    \E a, b \in Addr :
        /\ archivers[b].stake > 0 /\ archivers[a].stake = 2 * archivers[b].stake
        /\ archivers[a].active /\ ~archivers[b].active
        /\ pendingRewards(b) > 0 /\ pendingRewards(a) > pendingRewards(b)
        /\ funded > MaxFundValue /\ rewardPool = funded

\* C25: an addStake, withdrawStake, claimRewards, deactivate or commitToBlob
\* step by A leaves the stake, the rewardDebt and the pending reward of every
\* other address B as they are.
OperatorIsolation ==
    [][\A A \in Addr :
          (\/ \E v \in 1 .. 2 : addStake(A, v)
           \/ \E v \in 0 .. archivers[A].stake : withdrawStake(A, v)
           \/ claimRewards(A)
           \/ deactivate(A)
           \/ \E h \in Hash : commitToBlob(A, h))
          => \A B \in Addr \ {A} :
                /\ archivers'[B].stake = archivers[B].stake
                /\ rewardDebt'[B] = rewardDebt[B]
                /\ pendingRewardsRevert(B)' = pendingRewardsRevert(B)
                /\ pendingRewards(B)' = pendingRewards(B)]_vars

\* C25 witness: A has committed, been paid a reward and been deactivated
\* while B still has its reward pending.
OperatorIsolationWitness ==
    \E A, B \in Addr :
        /\ A # B
        /\ archivers[A].blobCount > 0 /\ ~archivers[A].active
        /\ archivers[A].stake > 0 /\ rewardDebt[A] > 0 /\ pendingRewards(A) = 0
        /\ archivers[A].lastClaimAt > archivers[A].registeredAt
        /\ archivers[B].stake > 0 /\ pendingRewards(B) > 0

\* C26: createChallenge ends with InvalidBond unless msg.value is exactly
\* CHALLENGE_BOND, and with ArchiverNotActive if the named archiver is not
\* active.  A createChallenge step takes the id nextChallengeId, which no
\* challenge had, advances nextChallengeId by 1, records the challenge
\* unresolved with deadline now + CHALLENGE_PERIOD, adds the bond to the
\* balance and changes no other challenge and no archiver; no step ever
\* lowers nextChallengeId, and the ids in use are those below it.
CreateChallengeEffect ==
    /\ [](\A c \in Addr, a \in Addr \cup {ZERO}, h \in Hash :
             /\ \A v \in {0, CHALLENGE_BOND + 1} :
                   createChallengeRevert(c, a, h, v) = "InvalidBond"
             /\ createChallengeRevert(c, a, h, CHALLENGE_BOND) =
                   IF ArchiverOf(a).active THEN "none" ELSE "ArchiverNotActive")
    /\ [](\A id \in ChallengeIds : Exists(id) <=> id < nextChallengeId)
    /\ [][nextChallengeId' >= nextChallengeId]_vars
    /\ [][\A c \in Addr, a \in Addr, h \in Hash :
             createChallenge(c, a, h, CHALLENGE_BOND) =>
                LET id == nextChallengeId IN
                /\ ~Exists(id)
                /\ nextChallengeId' = id + 1
                /\ challenges' = [challenges EXCEPT ![id] =
                      [challenger |-> c, archiver |-> a, blobHash |-> h,
                       deadline |-> now + CHALLENGE_PERIOD,
                       resolved |-> FALSE, archiverWon |-> FALSE]]
                /\ balance' = balance + CHALLENGE_BOND
                /\ archivers' = archivers
                /\ totalStake' = totalStake]_vars

\* C26 witness: a second challenge was opened on a later day than the first,
\* which is resolved.
CreateChallengeEffectWitness ==
    /\ nextChallengeId = 2
    /\ challenges[0].resolved /\ ~challenges[1].resolved
    /\ challenges[1].deadline > challenges[0].deadline

\* The number of times c occurs in the commitment lists of all blob hashes.
Occurrences(c) ==
    SumOver([h \in Hash |-> Len(SelectSeq(blobArchivers[h], LAMBDA x : x = c))], Hash)

\* s is an initial part of t.
IsPrefix(s, t) == Len(s) <= Len(t) /\ SubSeq(t, 1, Len(s)) = s

\* C27: commitToBlob and batchCommitToBlobs by a caller that is not active
\* (never registered, deactivated or fully withdrawn) end with
\* ArchiverNotActive.  A commitToBlob step appends the caller to the end of the
\* list of that blob hash, leaves the other lists alone and adds 1 to the
\* caller's blobCount.  In every state the blobCount of an address is the
\* number of its occurrences over all lists, and no step removes or reorders
\* an entry: each list is an initial part of what it is after the step.
CommitIndex ==
    /\ [](\A c \in Addr :
             ~archivers[c].active =>
                /\ \A h \in Hash : commitToBlobRevert(c, h) = "ArchiverNotActive"
                /\ \A hs \in Batches : batchCommitToBlobsRevert(c, hs) = "ArchiverNotActive")
    /\ [][\A c \in Addr, h \in Hash :
             commitToBlob(c, h) =>
                /\ archivers[c].active
                /\ blobArchivers' = [blobArchivers EXCEPT ![h] = Append(@, c)]
                /\ archivers' = [archivers EXCEPT ![c].blobCount = @ + 1]]_vars
    /\ [](\A c \in Addr : archivers[c].blobCount = Occurrences(c))
    /\ [][\A h \in Hash : IsPrefix(blobArchivers[h], blobArchivers'[h])]_vars

\* C27 witness: one list holds a twice with b in between, and a, no longer
\* active, keeps its count.
CommitIndexWitness ==
    \E h \in Hash, a, b \in Addr :
        /\ a # b /\ Len(blobArchivers[h]) >= 3
        /\ blobArchivers[h][1] = a /\ blobArchivers[h][2] = b /\ blobArchivers[h][3] = a
        /\ ~archivers[a].active /\ archivers[a].blobCount >= 2

\* C28: batchCommitToBlobs called by an active archiver with more than
\* MAX_BATCH_SIZE blob hashes ends with BatchTooLarge.
BatchSizeLimit ==
    \A c \in Addr, hs \in Batches :
        (archivers[c].active /\ Len(hs) > MAX_BATCH_SIZE)
           => batchCommitToBlobsRevert(c, hs) = "BatchTooLarge"

\* C29: when an archiver that a slash left inactive with less than MIN_STAKE
\* brings its stake back to at least MIN_STAKE by addStake, commitToBlob by
\* that archiver succeeds in the state after the addStake.
TopUpResumesCommits ==
    [][\A c \in Addr, v \in 1 .. 2 :
          (/\ addStake(c, v)
           /\ archivers[c].failedChallenges > 0 /\ ~archivers[c].active
           /\ archivers[c].stake < MIN_STAKE /\ archivers'[c].stake >= MIN_STAKE)
          => \A h \in Hash : commitToBlobRevert(c, h)' = "none"]_vars

\* C30: when A holds exactly MIN_STAKE, nobody else holds stake and A has
\* nothing pending, then after a funding of x a claimRewards by A succeeds and
\* transfers r with x - 1 <= r <= x.
SoleStakerPayout ==
    [][\A A \in Addr, x \in 1 .. MaxFundValue :
          (/\ fundRewardPool(OWNER, x)
           /\ archivers[A].stake = MIN_STAKE /\ totalStake = MIN_STAKE
           /\ pendingRewards(A) = 0)
          => /\ claimRewardsRevert(A)' = "none"
             /\ SumSent(claimRewardsSent(A))' >= x - 1
             /\ SumSent(claimRewardsSent(A))' <= x]_vars

\* C30 witness: A, the only one with stake after another archiver withdrew,
\* has collected a reward and has nothing pending.
SoleStakerPayoutWitness ==
    \E A, B \in Addr :
        /\ A # B /\ Registered(B) /\ archivers[B].stake = 0
        /\ archivers[A].stake = MIN_STAKE /\ totalStake = MIN_STAKE
        /\ rewardsPaid > 0 /\ rewardDebt[A] > 0 /\ pendingRewards(A) = 0
        /\ archivers[A].lastClaimAt >= archivers[B].registeredAt
\* The challenges against a that were resolved for it and against it,
\* counted from the challenge records.
Won(a) == Cardinality({id \in ChallengeIds :
              challenges[id].archiver = a /\ challenges[id].resolved
              /\ challenges[id].archiverWon})

Lost(a) == Cardinality({id \in ChallengeIds :
              challenges[id].archiver = a /\ challenges[id].resolved
              /\ ~challenges[id].archiverWon})

\* C31: getArchiverStats returns the stake and the blobCount of the record
\* and a successRate that is 100 when no challenge against the archiver was
\* resolved and floor(100 * won / (won + lost)) otherwise, won and lost being
\* the numbers of challenges resolved for and against it; successRate is
\* always in 0 .. 100.
SuccessRate ==
    \A a \in Addr :
        LET s == getArchiverStats(a)
            won == Won(a)
            lost == Lost(a)
        IN  /\ s.stake = archivers[a].stake
            /\ s.blobCount = archivers[a].blobCount
            /\ archivers[a].successfulChallenges = won
            /\ archivers[a].failedChallenges = lost
            /\ s.successRate \in 0 .. 100
            /\ (won + lost = 0) => s.successRate = 100
            /\ (won + lost > 0) =>
                  /\ s.successRate * (won + lost) <= 100 * won
                  /\ 100 * won < (s.successRate + 1) * (won + lost)

\* C31 witness: an archiver has won one challenge and lost one, and its
\* successRate is 50.
SuccessRateWitness ==
    \E a \in Addr :
        /\ Won(a) = 1 /\ Lost(a) = 1
        /\ getArchiverStats(a).successRate = 50

\* C32: for every author, the nonces of the accepted posts are strictly
\* increasing in the order of acceptance, so no two posts of one author carry
\* the same nonce, also when the handlers of two requests of that author are
\* suspended at the registration check at the same time.
NonceReplayProtection ==
    \A i, j \in 1 .. Len(posts) :
        (i < j /\ toLowerCase(posts[i].author) = toLowerCase(posts[j].author))
           => posts[i].nonce < posts[j].nonce

\* C33: checkAgentRateLimit is a sliding window: of the calls for one address
\* that return true, any maxPosts + 1 span at least windowMs, so no interval
\* shorter than windowMs holds more than maxPosts of them.
SlidingWindow ==
    \A k \in Keys : \A i, j \in 1 .. Len(admitted[k]) :
        (j - i >= maxPosts) => admitted[k][j] - admitted[k][i] >= windowMs

\* C40: a POST /post that is rejected after the registration check (author
\* not registered, rate limit exceeded or invalid signature) changes neither
\* nonces nor posts nor agentRateLimits.  (A request rejected before the
\* registration check, as one with a bad nonce, takes no step at all.)
RejectedPostLeavesState ==
    [][\A slot \in Slots, isRegistered \in BOOLEAN :
          (/\ inflight[slot] # NoRequest
           /\ PostResume(slot, isRegistered)
           /\ postOutcome(inflight[slot], isRegistered) # "Created")
          => UNCHANGED <<nonces, posts, agentRateLimits>>]_vars

\* The challenges that are created and not resolved.
Unresolved == {id \in ChallengeIds : Exists(id) /\ ~challenges[id].resolved}

\* C34: in every state the contract holds at least totalStake plus
\* CHALLENGE_BOND for every unresolved challenge.
Solvency ==
    balance >= totalStake + CHALLENGE_BOND * Cardinality(Unresolved)

\* C35: for every operator rewardDebt <= floor(stake * accRewardPerStake /
\* SCALE), so the subtraction in _claimRewards and pendingRewards never goes
\* below zero, also after a slash reduced the stake.
PendingNeverNegative ==
    \A a \in Addr : rewardDebt[a] <= Accumulated(a)

\* C36: in every state a registered operator with stake s > 0, active or
\* not, slashed or not, can withdraw all of it: withdrawStake(s) succeeds and
\* sends the operator at least s.
StakeRecoverable ==
    \A a \in Addr :
        (Registered(a) /\ archivers[a].stake > 0)
           => /\ withdrawStakeRevert(a, archivers[a].stake) = "none"
              /\ SentTo(withdrawStakeSent(a, archivers[a].stake), a) >= archivers[a].stake

\* C37: in every state an active archiver holds at least MIN_STAKE.
ActiveIsBonded ==
    \A a \in Addr : archivers[a].active => archivers[a].stake >= MIN_STAKE

\* C37 witness: an archiver slashed once is still active with exactly
\* MIN_STAKE while another challenge against it is unresolved.
ActiveIsBondedWitness ==
    \E a \in Addr, id \in Unresolved :
        /\ challenges[id].archiver = a
        /\ archivers[a].active /\ archivers[a].failedChallenges = 1
        /\ archivers[a].stake = MIN_STAKE

\* a is in the commitment list of blob hash h.
HasCommitted(a, h) == \E i \in 1 .. Len(blobArchivers[h]) : blobArchivers[h][i] = a

\* C38: every challenge that createChallenge creates names an archiver and
\* a blob hash such that the archiver is in the commitment list of that blob
\* hash when the challenge is created.
ChallengeNeedsCommitment ==
    [][\A c \in Addr, a \in Addr, h \in Hash :
          createChallenge(c, a, h, CHALLENGE_BOND) => HasCommitted(a, h)]_vars

\* C39: an archiver cannot lower its stake by withdrawStake while a challenge
\* against it is unresolved, so the slash of that challenge is taken from at
\* least the stake held when the challenge was opened.
NoWithdrawalWhileChallenged ==
    [][\A a \in Addr, amount \in 1 .. (2 * MIN_STAKE) :
          withdrawStake(a, amount)
             => ~\E id \in Unresolved : challenges[id].archiver = a]_vars
====
